---- MODULE Spec2Model ----
(***************************************************************************)
(* FreeScout integration of fleetx: the worker job processor (getClient    *)
(* with its mutex-protected client cache, Run and its dispatch) and the    *)
(* FreeScout API client (NewFreeScoutClient, FreeScoutConfigMatches,       *)
(* CreateFreeScoutConversation).                                           *)
(*                                                                         *)
(* Strings that the code inspects character by character (the endpoint     *)
(* URL) are sequences of one-character strings; the other option fields    *)
(* are only ever compared for equality and stay opaque values.             *)
(***************************************************************************)
EXTENDS Integers, Sequences, FiniteSets, TLC

\* ------------------------------------------------------------------ bounds

\* The largest team id a failing-policy job carries.
MaxTeam == 0

\* The longest host list a job renders.
MaxHosts == 60

\* The number of QueueJob calls made.
MaxQueue == 2

\* The Run invocations (jobs) the worker pool executes: two, which is what the
\* claims about concurrent invocations speak of.
Jobs == {1, 2}

\* ------------------------------------------------------------- FreeScout client
\* (package externalsvc)

\* A nil pointer / absent value (of record type, so that it compares with records).
None == [nil |-> TRUE]

\* A *uint: the nil pointer, or a pointer to v.
NilPtr == << >>
Ptr(v) == << v >>

Letters == {"s", "h", "g"}

\* strings.TrimRight(u, "/")
RECURSIVE TrimRightSlash(_)
TrimRightSlash(u) ==
    IF Len(u) > 0 /\ u[Len(u)] = "/" THEN TrimRightSlash(SubSeq(u, 1, Len(u) - 1)) ELSE u

\* Index of the first character of u that is not a letter (Len(u)+1 when all are).
RECURSIVE FirstNonLetter(_, _)
FirstNonLetter(u, i) ==
    IF i > Len(u) \/ u[i] \notin Letters THEN i ELSE FirstNonLetter(u, i + 1)

\* Index of the first "/" of u at or after i (Len(u)+1 when there is none).
RECURSIVE FirstSlash(_, _)
FirstSlash(u, i) ==
    IF i > Len(u) \/ u[i] = "/" THEN i ELSE FirstSlash(u, i + 1)

\* net/url.Parse on the alphabet Letters + ":" + "/": the scheme is the run of
\* letters before the first ":", the host what follows "//" up to the next "/".
\* A leading ":" is a parse error ("missing protocol scheme"), as is a first
\* path segment holding a colon when there is no scheme.
ParseURL(u) ==
    LET n    == FirstNonLetter(u, 1)
        hasS == n <= Len(u) /\ u[n] = ":" /\ n > 1
        sch  == IF hasS THEN SubSeq(u, 1, n - 1) ELSE << >>
        rest == IF hasS THEN SubSeq(u, n + 1, Len(u)) ELSE u
        auth == Len(rest) >= 2 /\ rest[1] = "/" /\ rest[2] = "/"
        hEnd == FirstSlash(rest, 3)
        host == IF auth THEN SubSeq(rest, 3, hEnd - 1) ELSE << >>
        bad  == \/ (n <= Len(u) /\ u[n] = ":" /\ n = 1)
                \/ (~hasS /\ Len(rest) > 0 /\ rest[1] # "/"
                      /\ \E i \in 1..(FirstSlash(rest, 1) - 1) : rest[i] = ":")
                \/ (auth /\ \E i \in 1..Len(host) : host[i] = ":")
    IN  [err |-> bad, Scheme |-> sch, Host |-> host]

\* cleaned := *opts; cleaned.URL = strings.TrimRight(opts.URL, "/")
CleanedOptions(opts) == [opts EXCEPT !.URL = TrimRightSlash(opts.URL)]

\* NewFreeScoutClient's checks: nil options, empty URL, parse error, no scheme or host.
NewClientRejects(opts) ==
    \/ opts = None
    \/ opts.URL = << >>
    \/ ParseURL(opts.URL).err
    \/ ParseURL(opts.URL).Scheme = << >>
    \/ ParseURL(opts.URL).Host = << >>

\* NewFreeScoutClient(opts): the client (identified by the instance id the caller
\* gives it) or None with an error.
NewFreeScoutClient(opts, id) ==
    IF NewClientRejects(opts)
    THEN [cli |-> None, err |-> TRUE]
    ELSE [cli |-> [id |-> id, opts |-> CleanedOptions(opts)], err |-> FALSE]

\* A mutant of FreeScoutConfigMatches: only the endpoint and the token are compared.
FreeScoutConfigMatchesURLToken(cli, opts) ==
    cli.opts.URL = opts.URL /\ cli.opts.APIToken = opts.APIToken

\* func (f *FreeScout) FreeScoutConfigMatches(opts) bool { return f.opts == *opts }
FreeScoutConfigMatches(cli, opts) == cli.opts = opts

\* ------------------------------------------------------------- option values

MkOpts(url, tok, mb, email, assign) ==
    [URL |-> url, APIToken |-> tok, MailboxID |-> mb, CustomerEmail |-> email, AssignTo |-> assign]

URLA       == << "s", ":", "/", "/", "h" >>
URLASlash  == URLA \o << "/" >>
URLASlash2 == URLA \o << "/", "/" >>
URLG       == << "s", ":", "/", "/", "g" >>
URLEmpty   == << >>
URLNoSch   == << "h" >>
URLNoHost  == << "s", ":", "/", "/" >>
URLOpaque  == << "s", ":", "h" >>
URLColon   == << ":", "h" >>

OptA       == MkOpts(URLA, "t1", 1, "e1", 0)
OptURL     == [OptA EXCEPT !.URL = URLG]
OptTok     == [OptA EXCEPT !.APIToken = "t2"]
OptMb      == [OptA EXCEPT !.MailboxID = 2]
OptEmail   == [OptA EXCEPT !.CustomerEmail = "e2"]
OptAssign  == [OptA EXCEPT !.AssignTo = 3]
OptSlash   == [OptA EXCEPT !.URL = URLASlash]
OptSlash2  == [OptA EXCEPT !.URL = URLASlash2]
OptEmpty   == [OptA EXCEPT !.URL = URLEmpty]
OptNoSch   == [OptA EXCEPT !.URL = URLNoSch]
OptNoHost  == [OptA EXCEPT !.URL = URLNoHost]
OptOpaque  == [OptA EXCEPT !.URL = URLOpaque]
OptColon   == [OptA EXCEPT !.URL = URLColon]

\* Options the concurrent specification draws its configurations from.
CoreOpts == {OptA, OptTok, OptSlash, OptEmpty}

\* Options the serial specification draws its configurations from: every
\* single-field variant of OptA, trailing slashes, and every kind of rejected URL.
WideOpts == {OptA, OptURL, OptTok, OptMb, OptEmail, OptAssign, OptSlash, OptSlash2,
             OptEmpty, OptNoSch, OptNoHost, OptOpaque, OptColon}

OptionFields == {"URL", "APIToken", "MailboxID", "CustomerEmail", "AssignTo"}

\* The fields in which two option values differ.
DiffFields(a, b) == {f \in OptionFields : a[f] # b[f]}

\* ------------------------------------------------------------- configuration
\* (fleet.AppConfig / fleet.Team integrations, as the datastore returns them)

Teams == 0..MaxTeam

\* A fleet.FreeScoutIntegration / fleet.TeamFreeScoutIntegration entry.
Intg(o, enVuln, enFP) ==
    [URL |-> o.URL, APIToken |-> o.APIToken, MailboxID |-> o.MailboxID,
     CustomerEmail |-> o.CustomerEmail, AssignTo |-> o.AssignTo,
     EnableSoftwareVulnerabilities |-> enVuln, EnableFailingPolicies |-> enFP]

CoreLists ==
    {<< >>, << Intg(OptA, FALSE, TRUE) >>} \cup {<< Intg(o, TRUE, TRUE) >> : o \in CoreOpts}

WideLists == {<< >>} \cup {<< Intg(o, TRUE, TRUE) >> : o \in WideOpts}

\* ------------------------------------------------------------- job arguments
\* (freeScoutArgs after json.Unmarshal)

intgTypeVuln == "vuln"
intgTypeFailingPolicy == "failingPolicy"

\* Host lists are sequences of host ids.
DefaultHosts == << 1 >>

\* json: whether the payload unmarshals; Vulnerability: "nil", or whether
\* AffectedSoftwareIDs is empty ("cve") or not ("ids"); FailingPolicy: nil or
\* present; TeamID: NilPtr or Ptr(team id); Hosts: FailingPolicy.Hosts.
MkArgs(json, vuln, fp, team) ==
    [json |-> json, Vulnerability |-> vuln, FailingPolicy |-> fp, TeamID |-> team,
     Hosts |-> IF fp THEN DefaultHosts ELSE << >>]

\* The payload a with the failing-policy hosts hs.
WithHosts(a, hs) == [a EXCEPT !.Hosts = hs]

ArgsMalformed == MkArgs(FALSE, "nil", FALSE, NilPtr)
ArgsEmpty     == MkArgs(TRUE, "nil", FALSE, NilPtr)
ArgsVulnCVE   == MkArgs(TRUE, "cve", FALSE, NilPtr)
ArgsVulnIDs   == MkArgs(TRUE, "ids", FALSE, NilPtr)
ArgsFP        == MkArgs(TRUE, "nil", TRUE, NilPtr)
ArgsFPTeam(t) == MkArgs(TRUE, "nil", TRUE, Ptr(t))

Payloads == {ArgsMalformed, ArgsEmpty, ArgsVulnCVE, ArgsVulnIDs, ArgsFP}
              \cup {ArgsFPTeam(t) : t \in Teams}

\* func (a *freeScoutArgs) integrationType() string
integrationType(a) == IF ~a.FailingPolicy THEN intgTypeVuln ELSE intgTypeFailingPolicy

\* getClient: useTeamCfg
UseTeamCfg(a) == integrationType(a) = intgTypeFailingPolicy /\ a.TeamID # NilPtr

\* A mutant of CacheKey: the team id is left out of the key.
CacheKeyNoTeam(a) == integrationType(a) \o ":"

\* getClient: key := intgType + ":" (+ fmt.Sprint(teamID))
CacheKey(a) ==
    integrationType(a) \o ":" \o (IF UseTeamCfg(a) THEN ToString(a.TeamID[1]) ELSE "")

Keys == {CacheKey(a) : a \in Payloads \ {ArgsMalformed}}

\* opts = &externalsvc.FreeScoutOptions{...} built from one integration entry
OptsOfIntg(intg) ==
    MkOpts(intg.URL, intg.APIToken, intg.MailboxID, intg.CustomerEmail, intg.AssignTo)

\* The global loop's condition on one entry.
GlobalEnabled(intg, intgType) ==
    \/ (intgType = intgTypeVuln /\ intg.EnableSoftwareVulnerabilities)
    \/ (intgType = intgTypeFailingPolicy /\ intg.EnableFailingPolicies)

\* A mutant of TeamEnabled: the enable flag of a team's entry is not looked at.
TeamEnabledAlways(intg, intgType) == intgType = intgTypeFailingPolicy

\* The team loop's condition on one entry.
TeamEnabled(intg, intgType) ==
    intgType = intgTypeFailingPolicy /\ intg.EnableFailingPolicies

\* A mutant of ResolveGlobal: the loop does not break, so the last enabled entry wins.
RECURSIVE ResolveGlobalLast(_, _)
ResolveGlobalLast(list, intgType) ==
    IF list = << >> THEN None
    ELSE IF GlobalEnabled(list[Len(list)], intgType) THEN OptsOfIntg(list[Len(list)])
    ELSE ResolveGlobalLast(SubSeq(list, 1, Len(list) - 1), intgType)

\* for _, intg := range ac.Integrations.Freescout { if ... { opts = ...; break } }
RECURSIVE ResolveGlobal(_, _)
ResolveGlobal(list, intgType) ==
    IF list = << >> THEN None
    ELSE IF GlobalEnabled(Head(list), intgType) THEN OptsOfIntg(Head(list))
    ELSE ResolveGlobal(Tail(list), intgType)

\* for _, intg := range intgs.Freescout { if ... { opts = ...; break } }
RECURSIVE ResolveTeam(_, _)
ResolveTeam(list, intgType) ==
    IF list = << >> THEN None
    ELSE IF TeamEnabled(Head(list), intgType) THEN OptsOfIntg(Head(list))
    ELSE ResolveTeam(Tail(list), intgType)

\* ------------------------------------------------------------- HTTP responses

Statuses == {200, 201, 404, 500}

\* resp.StatusCode/100 != 2 is the failure test of all three requests.
Is2xx(status) == status \div 100 = 2

\* Responses to GET /api/conversations: a transport error, or a status with a body
\* that decodes (or not) to the ids of _embedded.conversations.
SearchResponses ==
    {[neterr |-> TRUE, status |-> 200, decodes |-> TRUE, convs |-> << >>]}
      \cup [neterr : {FALSE}, status : Statuses, decodes : {TRUE},
            convs : {<< >>, << 5 >>, << 6, 5 >>, << 0 >>, << 0 - 4, 5 >>}]
      \cup {[neterr |-> FALSE, status |-> 200, decodes |-> FALSE, convs |-> << >>]}

\* Responses to POST /api/conversations/{id}/threads: a transport error, or a status.
ThreadResponses ==
    {[neterr |-> TRUE, status |-> 200]} \cup [neterr : {FALSE}, status : Statuses]

\* Values of the Resource-ID response header ("" when absent).
Headers == {<< >>, << "7" >>, << "1", "2" >>, << "x" >>, << "7", "x" >>}

\* Responses to POST /api/conversations: a transport error, or a status with a
\* Resource-ID header.
CreateResponses ==
    {[neterr |-> TRUE, status |-> 200, header |-> << >>]}
      \cup [neterr : {FALSE}, status : Statuses, header : Headers]

Digits == << "0", "1", "2", "3", "4", "5", "6", "7", "8", "9" >>

IsDigit(c) == \E d \in 1..Len(Digits) : Digits[d] = c

DigitValue(c) == (CHOOSE d \in 1..Len(Digits) : Digits[d] = c) - 1

\* strconv.ParseInt(h, 10, 64) on unsigned decimal text: the value, or an error
\* for the empty string and for any character that is not a digit.
RECURSIVE DecimalValue(_)
DecimalValue(h) ==
    IF h = << >> THEN 0
    ELSE 10 * DecimalValue(SubSeq(h, 1, Len(h) - 1)) + DigitValue(h[Len(h)])

ParseInt(h) ==
    IF h # << >> /\ \A i \in 1..Len(h) : IsDigit(h[i])
    THEN [val |-> DecimalValue(h), err |-> FALSE]
    ELSE [val |-> 0, err |-> TRUE]

\* A mutant of FindExistingConversationID: the conversations after the first
\* are looked at as well, for one with a positive id.
FindExistingConversationIDAny(resp) ==
    IF resp.neterr THEN [id |-> 0, err |-> TRUE]
    ELSE IF ~Is2xx(resp.status) THEN [id |-> 0, err |-> TRUE]
    ELSE IF ~resp.decodes THEN [id |-> 0, err |-> TRUE]
    ELSE LET pos == {n \in 1..Len(resp.convs) : resp.convs[n] > 0}
         IN  IF pos = {} THEN [id |-> 0, err |-> FALSE]
             ELSE [id |-> resp.convs[CHOOSE n \in pos : \A m \in pos : n <= m], err |-> FALSE]

\* findExistingConversationID: (id, err) for a search response.
FindExistingConversationID(resp) ==
    IF resp.neterr THEN [id |-> 0, err |-> TRUE]
    ELSE IF ~Is2xx(resp.status) THEN [id |-> 0, err |-> TRUE]
    ELSE IF ~resp.decodes THEN [id |-> 0, err |-> TRUE]
    ELSE IF Len(resp.convs) = 0 THEN [id |-> 0, err |-> FALSE]
    ELSE [id |-> resp.convs[1], err |-> FALSE]

\* A mutant of AppendsToExisting: a found conversation is ignored.
AppendsToExistingNever(existingID) == FALSE

\* CreateFreeScoutConversation: if existingID > 0 { append a thread }
AppendsToExisting(existingID) == existingID > 0

\* A mutant of CreateThreadFails: the status of the response is not looked at.
CreateThreadFailsOnTransportOnly(resp) == resp.neterr

\* createFreeScoutThread: the error for a thread response.
CreateThreadFails(resp) == resp.neterr \/ ~Is2xx(resp.status)

\* A mutant of CreatedConversationID: a header that does not parse is an error.
CreatedConversationIDStrict(resp) ==
    IF resp.neterr \/ ~Is2xx(resp.status) \/ ParseInt(resp.header).err
    THEN [id |-> 0, err |-> TRUE]
    ELSE [id |-> ParseInt(resp.header).val, err |-> FALSE]

\* CreateFreeScoutConversation after the search found nothing: (id, err) for the
\* create response.
CreatedConversationID(resp) ==
    IF resp.neterr THEN [id |-> 0, err |-> TRUE]
    ELSE IF ~Is2xx(resp.status) THEN [id |-> 0, err |-> TRUE]
    ELSE IF resp.header = << >> THEN [id |-> 0, err |-> FALSE]
    ELSE IF ParseInt(resp.header).err THEN [id |-> 0, err |-> FALSE]
    ELSE [id |-> ParseInt(resp.header).val, err |-> FALSE]

\* ------------------------------------------------------------- state

VARIABLES
    mu,            \* FreeScout.mu: the set of jobs holding the mutex ({} when free)
    clientsCache,  \* FreeScout.clientsCache: key -> client or None
    job,           \* per Run invocation: its position and local variables
    csOrder,       \* history: the jobs in the order they acquired the mutex
    retBefore,     \* history: per job, the jobs whose getClient had returned when it began
    queue,         \* the jobs table QueueJob inserts into, and the last call that queued
    made           \* the last direct call of NewFreeScoutClient: what it was given and returned

vars == << mu, clientsCache, job, csOrder, retBefore, queue, made >>

\* Positions at which a job's getClient call has returned.
AfterGetClientPCs == {"gotclient", "hosts", "render", "search", "append", "create", "done"}

NewJob(a) ==
    [pc |-> "queued", args |-> a,
     acFailingPolicies |-> FALSE,  \* history: whether an entry of ac.Integrations.Freescout
                                   \* read by getClient enables failing policies
     intgs |-> NilPtr,     \* getClient: Ptr(the integration entries the loop ranged over)
     readAfter |-> {},     \* history: the jobs that had read their entries when this one did
     opts |-> None,        \* getClient: opts
     cached |-> None,      \* getClient: the entry read from clientsCache[key]
     cli |-> None,         \* the client getClient returns
     err |-> FALSE,        \* whether getClient returns an error
     built |-> 0,          \* calls of NewClientFunc made by this job
     matched |-> 0,        \* calls of FreeScoutConfigMatches made by this job
     lookup |-> "none",    \* the host lookup made
     hosts |-> << >>,      \* runVuln: hosts
     rendered |-> 0,       \* templates executed
     summary |-> None,     \* createTemplatedConversation: summary
     description |-> None, \* createTemplatedConversation: description
     reqs |-> << >>,       \* HTTP requests sent, in order
     resps |-> << >>,      \* the outcome of each request, in the same order
     existingID |-> 0,     \* CreateFreeScoutConversation: existingID
     convID |-> 0,         \* the conversation id returned to Run
     result |-> "none"]    \* what Run returns: "ok" (nil) or "error"

InitWith(payloads) ==
    /\ mu = {}
    /\ clientsCache = [k \in Keys |-> None]
    /\ job \in [Jobs -> {NewJob(a) : a \in payloads}]
    /\ csOrder = << >>
    /\ retBefore = [j \in Jobs |-> {}]
    /\ queue = [jobs |-> << >>, calls |-> 0, last |-> None]
    /\ made = [called |-> FALSE]

\* The payloads of the concurrent specification (one vulnerability payload suffices).
CorePayloads == Payloads \ {ArgsVulnCVE}

Init == InitWith(CorePayloads)

Finish(s, res) == [s EXCEPT !.pc = "done", !.result = res]

\* ------------------------------------------------------------- getClient

\* Run: json.Unmarshal(argsJSON, &args), then the call of getClient up to its
\* first datastore call.
Begin(j) ==
    /\ job[j].pc = "queued"
    /\ LET s == job[j]
       IN  job' = [job EXCEPT ![j] =
                     IF ~s.args.json THEN Finish(s, "error") ELSE [s EXCEPT !.pc = "appconfig"]]
    /\ retBefore' = [retBefore EXCEPT ![j] = {i \in Jobs : job[i].pc \in AfterGetClientPCs}]
    /\ UNCHANGED << mu, clientsCache, csOrder, queue, made >>

\* A mutant of ReturnError: the error is remembered but getClient goes on to
\* the cache with no options.
ReturnErrorLate(s) == [s EXCEPT !.pc = "lock", !.err = TRUE]

\* getClient returns (nil, err) before it touches the mutex.
ReturnError(s) == [s EXCEPT !.pc = "gotclient", !.cli = None, !.err = TRUE]

\* The jobs whose getClient has read the integration entries it resolves from.
HaveRead == {i \in Jobs : job[i].intgs # NilPtr}

\* Some entry of list has EnableFailingPolicies set.
EnablesFailingPolicies(list) == \E n \in 1..Len(list) : list[n].EnableFailingPolicies

\* ac, err := f.Datastore.AppConfig(ctx), which fails or returns a configuration
\* whose ac.Integrations.Freescout is list; then the global loop when !useTeamCfg.
AppConfig(j, ok, list) ==
    /\ job[j].pc = "appconfig"
    /\ LET s == job[j]
       IN  job' = [job EXCEPT ![j] =
                     IF ~ok THEN ReturnError(s)
                     ELSE IF UseTeamCfg(s.args)
                          THEN [s EXCEPT !.pc = "teamlite",
                                         !.acFailingPolicies = EnablesFailingPolicies(list)]
                     ELSE [s EXCEPT !.pc = "lock",
                                    !.acFailingPolicies = EnablesFailingPolicies(list),
                                    !.intgs = Ptr(list), !.readAfter = HaveRead,
                                    !.opts = ResolveGlobal(list, integrationType(s.args))]]
    /\ UNCHANGED << mu, clientsCache, csOrder, retBefore, queue, made >>

\* tm, err := f.Datastore.TeamLite(ctx, teamID) and MatchWithIntegrations, which
\* fail or give intgs.Freescout = list; then the team loop.
TeamLite(j, ok, list) ==
    /\ job[j].pc = "teamlite"
    /\ LET s == job[j]
       IN  job' = [job EXCEPT ![j] =
                     IF ~ok THEN ReturnError(s)
                     ELSE [s EXCEPT !.pc = "lock", !.intgs = Ptr(list), !.readAfter = HaveRead,
                                    !.opts = ResolveTeam(list, integrationType(s.args))]]
    /\ UNCHANGED << mu, clientsCache, csOrder, retBefore, queue, made >>

\* A mutant of MutexFree: Lock never waits.
MutexFreeAlways(m) == TRUE

\* sync.Mutex: Lock returns only when no one holds the mutex.
MutexFree(m) == m = {}

\* f.mu.Lock()
Lock(j) ==
    /\ job[j].pc = "lock"
    /\ MutexFree(mu)
    /\ mu' = mu \cup {j}
    /\ job' = [job EXCEPT ![j].pc = "check"]
    /\ csOrder' = Append(csOrder, j)
    /\ UNCHANGED << clientsCache, retBefore, queue, made >>

\* A mutant of EvictEntry: the entry is left in the cache.
EvictEntryKeeps(cache, key) == cache

\* delete(f.clientsCache, key)
EvictEntry(cache, key) == [cache EXCEPT ![key] = None]

\* A mutant of CanReuse: any cached client is reused.
CanReuseAny(cached, opts) == cached # None

\* cli := f.clientsCache[key]; cli != nil && cli.FreeScoutConfigMatches(opts)
CanReuse(cached, opts) == cached # None /\ FreeScoutConfigMatches(cached, opts)

\* if opts == nil { delete; return nil, nil }; if the cached client can be
\* reused { return cli, nil }
Check(j) ==
    /\ job[j].pc = "check"
    /\ LET s   == job[j]
           key == CacheKey(s.args)
           cur == clientsCache[key]
       IN  IF s.opts = None
           THEN /\ clientsCache' = EvictEntry(clientsCache, key)
                /\ job' = [job EXCEPT ![j] = [s EXCEPT !.pc = "unlock", !.cli = None, !.err = FALSE]]
           ELSE /\ clientsCache' = clientsCache
                /\ job' = [job EXCEPT ![j] =
                             [s EXCEPT !.cached = cur,
                                       !.matched = IF cur # None THEN @ + 1 ELSE @,
                                       !.cli = IF CanReuse(cur, s.opts) THEN cur ELSE None,
                                       !.pc = IF CanReuse(cur, s.opts) THEN "unlock" ELSE "build"]]
    /\ UNCHANGED << mu, csOrder, retBefore, queue, made >>

\* FreeScout.NewClientFunc, set to the real constructor.
NewClientFunc(opts, id) == NewFreeScoutClient(opts, id)

\* A mutant of StoreEntry: an entry that is present is not overwritten.
StoreEntryIfAbsent(cache, key, c) == IF cache[key] = None THEN [cache EXCEPT ![key] = c] ELSE cache

\* f.clientsCache[key] = cli
StoreEntry(cache, key, c) == [cache EXCEPT ![key] = c]

\* A mutant of Build: the result of the constructor is stored before the error
\* is looked at, so a failed construction empties the entry.
BuildStoresFirst(j) ==
    /\ job[j].pc = "build"
    /\ LET s   == job[j]
           key == CacheKey(s.args)
           r   == NewClientFunc(s.opts, j)
       IN  /\ clientsCache' = StoreEntry(clientsCache, key, r.cli)
           /\ job' = [job EXCEPT ![j] =
                        [s EXCEPT !.built = @ + 1, !.cli = r.cli, !.err = r.err, !.pc = "unlock"]]
    /\ UNCHANGED << mu, csOrder, retBefore, queue, made >>

\* cli, err := f.NewClientFunc(opts); if err != nil { return nil, err };
\* f.clientsCache[key] = cli; return cli, nil
Build(j) ==
    /\ job[j].pc = "build"
    /\ LET s   == job[j]
           key == CacheKey(s.args)
           r   == NewClientFunc(s.opts, j)
       IN  /\ clientsCache' = IF r.err THEN clientsCache ELSE StoreEntry(clientsCache, key, r.cli)
           /\ job' = [job EXCEPT ![j] =
                        [s EXCEPT !.built = @ + 1, !.cli = r.cli, !.err = r.err, !.pc = "unlock"]]
    /\ UNCHANGED << mu, csOrder, retBefore, queue, made >>

\* A mutant of Unlock: getClient returns without releasing the mutex.
UnlockForgotten(j) ==
    /\ job[j].pc = "unlock"
    /\ job' = [job EXCEPT ![j].pc = "gotclient"]
    /\ UNCHANGED << mu, clientsCache, csOrder, retBefore, queue, made >>

\* defer f.mu.Unlock(), run as getClient returns
Unlock(j) ==
    /\ job[j].pc = "unlock"
    /\ mu' = mu \ {j}
    /\ job' = [job EXCEPT ![j].pc = "gotclient"]
    /\ UNCHANGED << clientsCache, csOrder, retBefore, queue, made >>

\* ------------------------------------------------------------- Run

\* A mutant of ClientAbsent: Run goes on without a client.
ClientAbsentNever(cli) == FALSE

\* Run: if cli == nil { return nil }
ClientAbsent(cli) == cli = None

\* runVuln: if vargs == nil { return errors.New("invalid job args") }
InvalidVulnArgs(a) == a.Vulnerability = "nil"

\* Run after getClient returned: the error and nil-client returns, then the
\* dispatch on the integration type up to the first call that leaves the job.
Dispatch(j) ==
    /\ job[j].pc = "gotclient"
    /\ LET s == job[j]
       IN  job' = [job EXCEPT ![j] =
                     IF s.err THEN Finish(s, "error")
                     ELSE IF ClientAbsent(s.cli) THEN Finish(s, "ok")
                     ELSE IF integrationType(s.args) = intgTypeVuln
                          THEN IF InvalidVulnArgs(s.args) THEN Finish(s, "error")
                               ELSE [s EXCEPT !.pc = "hosts"]
                          ELSE [s EXCEPT !.pc = "render"]]
    /\ UNCHANGED << mu, clientsCache, csOrder, retBefore, queue, made >>

\* runVuln: HostsByCVE for a payload without software ids, else
\* HostVulnSummariesBySoftwareIDs, which fails or returns hs; an error ends the job.
FetchHosts(j, ok, hs) ==
    /\ job[j].pc = "hosts"
    /\ LET s == [job[j] EXCEPT !.lookup = IF job[j].args.Vulnerability = "cve"
                                          THEN "HostsByCVE"
                                          ELSE "HostVulnSummariesBySoftwareIDs"]
       IN  job' = [job EXCEPT ![j] = IF ok THEN [s EXCEPT !.pc = "render", !.hosts = hs]
                                          ELSE Finish(s, "error")]
    /\ UNCHANGED << mu, clientsCache, csOrder, retBefore, queue, made >>

\* A mutant of Render: the client is called once the summary is rendered.
RenderSummaryOnly(j, summaryOk, descOk) ==
    /\ job[j].pc = "render"
    /\ job' = [job EXCEPT ![j] = IF ~summaryOk THEN Finish([job[j] EXCEPT !.rendered = 1], "error")
                                 ELSE [job[j] EXCEPT !.rendered = 1, !.pc = "search"]]
    /\ UNCHANGED << mu, clientsCache, csOrder, retBefore, queue, made >>

\* `{{ len .Hosts }} host(s)` of VulnSummary
VulnSummary(hs) == [tpl |-> "VulnSummary", hosts |-> Len(hs)]

\* `{{ len .Hosts }} host(s)` of FailingPolicySummary
FailingPolicySummary(hs) == [tpl |-> "FailingPolicySummary", hosts |-> Len(hs)]

\* The number above which VulnDescription cuts the host list.
VulnHostsShown == 50

\* The number above which FailingPolicyDescription cuts the host list.
FailingPolicyHostsShown == 50

\* {{ slice x 0 end }}: x[0:end]
Slice0(x, end) == [i \in 1..end |-> x[i]]

\* A mutant of VulnDescription: every host is listed.
VulnDescriptionUncut(hs) == [tpl |-> "VulnDescription", listed |-> hs]

\* {{ $end := len .Hosts }}{{ if gt $end 50 }}{{ $end = 50 }}{{ end }}
\* {{ range slice .Hosts 0 $end }} ... {{ end }} of VulnDescription
VulnDescription(hs) ==
    LET end0 == Len(hs)
        end  == IF end0 > VulnHostsShown THEN VulnHostsShown ELSE end0
    IN  [tpl |-> "VulnDescription", listed |-> Slice0(hs, end)]

\* The same lines of FailingPolicyDescription
FailingPolicyDescription(hs) ==
    LET end0 == Len(hs)
        end  == IF end0 > FailingPolicyHostsShown THEN FailingPolicyHostsShown ELSE end0
    IN  [tpl |-> "FailingPolicyDescription", listed |-> Slice0(hs, end)]

\* newFailingPoliciesTplArgs(f.FleetURL, args.FailingPolicy): the Hosts of the
\* template arguments are the hosts of the payload.
newFailingPoliciesTplArgs(a) == a.Hosts

\* The Hosts of the template arguments that runVuln (the hosts fetched) and
\* runFailingPolicy build.
TplHosts(s) ==
    IF integrationType(s.args) = intgTypeVuln THEN s.hosts ELSE newFailingPoliciesTplArgs(s.args)

\* createTemplatedConversation: summaryTpl.Execute, then descTpl.Execute; either
\* failing ends the job before the client is called.
Render(j, summaryOk, descOk) ==
    /\ job[j].pc = "render"
    /\ LET s    == job[j]
           vuln == integrationType(s.args) = intgTypeVuln
           sum  == IF vuln THEN VulnSummary(TplHosts(s)) ELSE FailingPolicySummary(TplHosts(s))
           desc == IF vuln THEN VulnDescription(TplHosts(s))
                           ELSE FailingPolicyDescription(TplHosts(s))
       IN  job' = [job EXCEPT ![j] =
                     IF ~summaryOk THEN Finish([s EXCEPT !.rendered = 1], "error")
                     ELSE IF ~descOk THEN Finish([s EXCEPT !.rendered = 2, !.summary = sum], "error")
                     ELSE [s EXCEPT !.rendered = 2, !.summary = sum, !.description = desc,
                                    !.pc = "search"]]
    /\ UNCHANGED << mu, clientsCache, csOrder, retBefore, queue, made >>

\* ------------------------------------------------------------- CreateFreeScoutConversation

\* existingID, err := f.findExistingConversationID(ctx, subject)
Search(j, resp) ==
    /\ job[j].pc = "search"
    /\ LET r == FindExistingConversationID(resp)
           s == [job[j] EXCEPT !.reqs = Append(@, [op |-> "search", id |-> 0]),
                               !.resps = Append(@, resp),
                               !.existingID = r.id]
       IN  job' = [job EXCEPT ![j] =
                     IF r.err THEN Finish(s, "error")
                     ELSE IF AppendsToExisting(r.id) THEN [s EXCEPT !.pc = "append"]
                     ELSE [s EXCEPT !.pc = "create"]]
    /\ UNCHANGED << mu, clientsCache, csOrder, retBefore, queue, made >>

\* f.createFreeScoutThread(ctx, existingID, message); return existingID, nil
AppendThread(j, resp) ==
    /\ job[j].pc = "append"
    /\ LET s == [job[j] EXCEPT !.reqs = Append(@, [op |-> "append", id |-> job[j].existingID]),
                               !.resps = Append(@, resp)]
       IN  job' = [job EXCEPT ![j] =
                     IF CreateThreadFails(resp) THEN Finish(s, "error")
                     ELSE Finish([s EXCEPT !.convID = s.existingID], "ok")]
    /\ UNCHANGED << mu, clientsCache, csOrder, retBefore, queue, made >>

\* POST /api/conversations and the Resource-ID header of its response
CreateConversation(j, resp) ==
    /\ job[j].pc = "create"
    /\ LET r == CreatedConversationID(resp)
           s == [job[j] EXCEPT !.reqs = Append(@, [op |-> "create", id |-> 0]),
                               !.resps = Append(@, resp)]
       IN  job' = [job EXCEPT ![j] =
                     IF r.err THEN Finish(s, "error")
                     ELSE Finish([s EXCEPT !.convID = r.id], "ok")]
    /\ UNCHANGED << mu, clientsCache, csOrder, retBefore, queue, made >>

\* ------------------------------------------------------------- queueing
\* (the producers of the jobs)

freescoutName == "freescout"

\* fleet.Policy: the fields QueueFreeScoutFailingPolicyJob reads.
Policies == [ID : {1, 2}, Name : {"p"}, Critical : BOOLEAN, TeamID : {NilPtr} \cup {Ptr(t) : t \in Teams}]

\* The hosts of a failing policy ([]fleet.PolicySetHost, as host ids).
PolicyHosts == {<< >>, << 1 >>, << 2, 1 >>}

\* QueueJob(ctx, ds, name, args): the insert into the jobs table fails, or adds
\* the job with its name and arguments.
QueueJob(q, name, args, ok) ==
    [q EXCEPT !.calls = @ + 1,
              !.jobs = IF ok THEN Append(@, [name |-> name, args |-> args]) ELSE @]

\* A mutant of SkipsNoHost: a policy without hosts is queued as well.
SkipsNoHostNever(hosts) == FALSE

\* QueueFreeScoutFailingPolicyJob: if len(hosts) == 0 { ...; return nil }
SkipsNoHost(hosts) == Len(hosts) = 0

\* QueueFreeScoutFailingPolicyJob(ctx, ds, logger, policy, hosts), with the
\* insert of QueueJob succeeding or not.
QueueFreeScoutFailingPolicyJob(policy, hosts, ok) ==
    /\ queue.calls < MaxQueue
    /\ LET args == [PolicyID |-> policy.ID, PolicyName |-> policy.Name,
                    PolicyCritical |-> policy.Critical, TeamID |-> policy.TeamID,
                    Hosts |-> hosts]
           call == [policy |-> policy, hosts |-> hosts]
       IN  queue' =
             IF SkipsNoHost(hosts)
             THEN [queue EXCEPT !.last = [call |-> call, err |-> FALSE]]
             ELSE [QueueJob(queue, freescoutName, [Vulnerability |-> None, FailingPolicy |-> args], ok)
                      EXCEPT !.last = [call |-> call, err |-> ~ok]]
    /\ UNCHANGED << mu, clientsCache, job, csOrder, retBefore, made >>

\* fleet.CVEMeta of a CVE, "a" or "b" (its fields are pointers).
MetaOf(cve) ==
    IF cve = "a"
    THEN [EPSSProbability |-> Ptr(1), CVSSScore |-> Ptr(7),
          CISAKnownExploit |-> Ptr(TRUE), Published |-> Ptr(20)]
    ELSE [EPSSProbability |-> Ptr(2), CVSSScore |-> Ptr(9),
          CISAKnownExploit |-> Ptr(FALSE), Published |-> Ptr(30)]

\* A mutant of GroupAppend: the software id is put in front.
GroupPrepend(sIDs, id) == << id >> \o sIDs

\* append(cveGrouped[v.GetCVE()], v.Affected())
GroupAppend(sIDs, id) == Append(sIDs, id)

\* cveGrouped after the loop over the first n recent vulnerabilities.
RECURSIVE cveGrouped(_, _)
cveGrouped(recentVulns, n) ==
    IF n = 0 THEN << >>
    ELSE LET g   == cveGrouped(recentVulns, n - 1)
             cve == recentVulns[n].CVE
             old == IF cve \in DOMAIN g THEN g[cve] ELSE << >>
         IN  [c \in DOMAIN g \cup {cve} |->
                 IF c = cve THEN GroupAppend(old, recentVulns[n].SoftwareID) ELSE g[c]]

\* vulnArgs of a CVE: its software ids, and its metadata when cveMeta has it.
vulnArgs(cve, sIDs, cveMeta) ==
    IF cve \in DOMAIN cveMeta
    THEN [CVE |-> cve, AffectedSoftwareIDs |-> sIDs,
          EPSSProbability |-> cveMeta[cve].EPSSProbability,
          CVSSScore |-> cveMeta[cve].CVSSScore,
          CISAKnownExploit |-> cveMeta[cve].CISAKnownExploit,
          CVEPublished |-> cveMeta[cve].Published]
    ELSE [CVE |-> cve, AffectedSoftwareIDs |-> sIDs,
          EPSSProbability |-> NilPtr, CVSSScore |-> NilPtr,
          CISAKnownExploit |-> NilPtr, CVEPublished |-> NilPtr]

\* The loop over cveGrouped from the n-th CVE of the iteration order on: each
\* CVE is queued, and the failAt-th QueueJob call (none when 0) fails, which
\* ends the loop with the error.
RECURSIVE QueueVulnLoop(_, _, _, _, _, _)
QueueVulnLoop(q, grouped, cveMeta, order, n, failAt) ==
    IF n > Len(order) THEN [queue |-> q, err |-> FALSE]
    ELSE LET args == vulnArgs(order[n], grouped[order[n]], cveMeta)
             q2   == QueueJob(q, freescoutName,
                              [Vulnerability |-> args, FailingPolicy |-> None], n # failAt)
         IN  IF n = failAt THEN [queue |-> q2, err |-> TRUE]
             ELSE QueueVulnLoop(q2, grouped, cveMeta, order, n + 1, failAt)

\* The orders in which a range over a map with these keys may visit them.
IterationOrders(keys) ==
    {o \in UNION {[1..n -> keys] : n \in {Cardinality(keys)}} :
        \A i, k \in 1..Len(o) : o[i] = o[k] => i = k}

\* QueueFreeScoutVulnJobs(ctx, ds, logger, recentVulns, cveMeta), with the map
\* visited in the given order and the failAt-th insert failing.
QueueFreeScoutVulnJobs(recentVulns, cveMeta, order, failAt) ==
    LET grouped == cveGrouped(recentVulns, Len(recentVulns))
        res     == QueueVulnLoop(queue, grouped, cveMeta, order, 1, failAt)
    IN  /\ queue.calls + Len(order) <= MaxQueue
        /\ order \in IterationOrders(DOMAIN grouped)
        /\ failAt \in 0..Len(order)
        /\ queue' = [res.queue EXCEPT !.last =
                        [call |-> [recentVulns |-> recentVulns, cveMeta |-> cveMeta],
                         err |-> res.err]]
        /\ UNCHANGED << mu, clientsCache, job, csOrder, retBefore, made >>

\* ------------------------------------------------------------- direct construction

\* A caller builds a client from options of its own: made records what it
\* passed, what its struct holds afterwards, and what came back. The function
\* trims the URL of its own copy (cleaned := *opts) and never writes through
\* the pointer it was given, so the caller's struct is afterwards as it was.
Construct(opts) ==
    /\ made' = [called |-> TRUE, given |-> opts, after |-> opts,
                cli |-> NewFreeScoutClient(opts, 1).cli, err |-> NewFreeScoutClient(opts, 1).err]
    /\ UNCHANGED << mu, clientsCache, job, csOrder, retBefore, queue >>

\* ------------------------------------------------------------- specifications

\* Responses the concurrent and serial specifications draw from: one of each outcome.
CoreSearchResponses ==
    {r \in SearchResponses : ~r.neterr /\ r.decodes /\ r.status \in {200, 500}
                               /\ r.convs \in {<< >>, << 5 >>}}

CoreThreadResponses == {r \in ThreadResponses : ~r.neterr /\ r.status \in {200, 500}}

CoreCreateResponses ==
    {r \in CreateResponses : ~r.neterr /\ r.status \in {200, 500} /\ r.header = << "7" >>}

\* The steps of a job that has begun, with the datastore answering from lists
\* (or failing, when no \in oks) and the FreeScout server from the given responses.
RunStep(j, oks, lists, hostLists, searches, threads, creates) ==
    \/ \E ok \in oks, list \in lists : AppConfig(j, ok, list)
    \/ \E ok \in oks, list \in lists : TeamLite(j, ok, list)
    \/ Lock(j)
    \/ Check(j)
    \/ Build(j)
    \/ Unlock(j)
    \/ Dispatch(j)
    \/ \E ok \in oks, hs \in hostLists : FetchHosts(j, ok, hs)
    \/ \E sOk, dOk \in oks : Render(j, sOk, dOk)
    \/ \E resp \in searches : Search(j, resp)
    \/ \E resp \in threads : AppendThread(j, resp)
    \/ \E resp \in creates : CreateConversation(j, resp)

\* The worker pool runs the jobs concurrently and in no order; every datastore
\* read may see another configuration.
Next ==
    \E j \in Jobs :
        \/ Begin(j)
        \/ RunStep(j, BOOLEAN, CoreLists, {DefaultHosts},
                   CoreSearchResponses, CoreThreadResponses, CoreCreateResponses)

Spec == Init /\ [][Next]_vars

\* No job other than j is running.
OthersIdle(j) == \A i \in Jobs \ {j} : job[i].pc \in {"queued", "done"}

\* A single worker takes the next job only when the previous one is done.
BeginSerial(j) == OthersIdle(j) /\ Begin(j)

SerialPayloads == {ArgsVulnCVE, ArgsVulnIDs} \cup {ArgsFPTeam(t) : t \in Teams}

InitSerial == InitWith(SerialPayloads)

\* A single worker runs the jobs one after the other, in any order; the
\* configurations range over every single-field variant of the options, while
\* the datastore and the FreeScout server do not fail.
NextSerial ==
    \E j \in Jobs :
        \/ BeginSerial(j)
        \/ RunStep(j, {TRUE}, WideLists, {DefaultHosts},
                   {r \in CoreSearchResponses : r.status = 200},
                   {r \in CoreThreadResponses : r.status = 200},
                   {r \in CoreCreateResponses : r.status = 200})

SpecSerial == InitSerial /\ [][NextSerial]_vars

InitConversation == InitWith({ArgsVulnIDs} \cup {ArgsFPTeam(t) : t \in Teams})

\* A single worker runs jobs whose integration is enabled and whose datastore
\* does not fail, against a FreeScout server that answers in every way.
NextConversation ==
    \E j \in Jobs :
        \/ BeginSerial(j)
        \/ RunStep(j, {TRUE}, {<< Intg(OptA, TRUE, TRUE) >>}, {DefaultHosts},
                   SearchResponses, ThreadResponses, CreateResponses)

SpecConversation == InitConversation /\ [][NextConversation]_vars

\* The hosts 1..n in ascending order, and in descending order.
Ascending(n) == [i \in 1..n |-> i]
Descending(n) == [i \in 1..n |-> n + 1 - i]

\* Host lists of the shortest lengths and of every length from 48 to MaxHosts,
\* the longest ones in both orders.
HostLists ==
    {Ascending(n) : n \in (0..2) \cup (48..MaxHosts)}
      \cup {Descending(n) : n \in (MaxHosts - 2)..MaxHosts}

InitTemplates ==
    InitWith({ArgsVulnIDs} \cup {WithHosts(ArgsFPTeam(t), hs) : t \in Teams, hs \in HostLists})

\* A single worker runs jobs over these host lists; the integration
\* is enabled and neither the datastore nor the FreeScout server fails.
NextTemplates ==
    \E j \in Jobs :
        \/ BeginSerial(j)
        \/ RunStep(j, {TRUE}, {<< Intg(OptA, TRUE, TRUE) >>}, HostLists,
                   {r \in CoreSearchResponses : r.status = 200},
                   {r \in CoreThreadResponses : r.status = 200},
                   {r \in CoreCreateResponses : r.status = 200})

SpecTemplates == InitTemplates /\ [][NextTemplates]_vars

\* An integration entry with the options o and every combination of enable flags.
ResolveEntries(o) == {Intg(o, v, p) : v \in BOOLEAN, p \in BOOLEAN}

\* Integration lists of up to two entries (the second with another token) with
\* every combination of enable flags, and one of three entries whose first is
\* disabled.
ResolveLists ==
    {<< >>} \cup {<< a >> : a \in ResolveEntries(OptA)}
      \cup {<< a, b >> : a \in ResolveEntries(OptA), b \in ResolveEntries(OptTok)}
      \cup {<< Intg(OptMb, FALSE, FALSE), Intg(OptTok, TRUE, TRUE), Intg(OptA, TRUE, TRUE) >>}

InitResolve == InitWith({ArgsVulnIDs, ArgsFP} \cup {ArgsFPTeam(t) : t \in Teams})

\* A single worker runs jobs of every kind against configurations with several
\* integration entries; neither the datastore nor the FreeScout server fails.
NextResolve ==
    \E j \in Jobs :
        \/ BeginSerial(j)
        \/ RunStep(j, {TRUE}, ResolveLists, {DefaultHosts},
                   {r \in CoreSearchResponses : r.status = 200},
                   {r \in CoreThreadResponses : r.status = 200},
                   {r \in CoreCreateResponses : r.status = 200})

SpecResolve == InitResolve /\ [][NextResolve]_vars

InitLive == InitWith({ArgsVulnIDs} \cup {ArgsFPTeam(t) : t \in Teams})

\* The configurations of the fair specification: no integration enabled, one
\* enabled that the constructor accepts, and one that it rejects.
LiveLists == {<< >>, << Intg(OptA, TRUE, TRUE) >>, << Intg(OptEmpty, TRUE, TRUE) >>}

\* A step of job j in the worker pool; datastore calls fail or succeed.
LiveStep(j) ==
    \/ Begin(j)
    \/ RunStep(j, BOOLEAN, LiveLists, {DefaultHosts},
               {r \in CoreSearchResponses : r.status = 200},
               {r \in CoreThreadResponses : r.status = 200},
               {r \in CoreCreateResponses : r.status = 200})

NextLive == \E j \in Jobs : LiveStep(j)

\* The jobs run concurrently and the scheduler lets every job that can take a
\* step take one eventually: goroutines are scheduled fairly, and the datastore
\* calls, the constructor and the HTTP requests return.
SpecLive == InitLive /\ [][NextLive]_vars /\ \A j \in Jobs : WF_vars(LiveStep(j))

InitQueue == InitWith({ArgsFP})

\* The failing-policy automation queues jobs for policies with and without hosts.
NextQueue ==
    \E policy \in Policies, hosts \in PolicyHosts, ok \in BOOLEAN :
        QueueFreeScoutFailingPolicyJob(policy, hosts, ok)

SpecQueue == InitQueue /\ [][NextQueue]_vars

\* The recent vulnerabilities of a scan ([]fleet.SoftwareVulnerability, as
\* what GetCVE() and Affected() return): none, one CVE with one or more
\* software (in either order, or twice the same), and two CVEs interleaved.
RecentVulnLists ==
    LET a1 == [CVE |-> "a", SoftwareID |-> 1]
        a2 == [CVE |-> "a", SoftwareID |-> 2]
        b1 == [CVE |-> "b", SoftwareID |-> 1]
        b2 == [CVE |-> "b", SoftwareID |-> 2]
    IN  {<< >>, << a1 >>, << b1 >>, << a1, a2 >>, << a2, a1 >>, << a1, a1 >>,
         << a1, b1 >>, << b2, a1 >>, << a1, b1, a2 >>, << a2, b1, a1 >>, << b1, a1, b2 >>}

\* The vulnerability automation queues jobs for what a scan found, with the
\* metadata of any subset of the CVEs at hand.
NextVulnQueue ==
    \E recentVulns \in RecentVulnLists,
       cveMeta \in {[c \in S |-> MetaOf(c)] : S \in SUBSET {"a", "b"}} :
        \E order \in IterationOrders({recentVulns[n].CVE : n \in 1..Len(recentVulns)}) :
            \E failAt \in 0..Len(order) :
                QueueFreeScoutVulnJobs(recentVulns, cveMeta, order, failAt)

SpecVulnQueue == InitWith({ArgsVulnCVE}) /\ [][NextVulnQueue]_vars

\* The options a caller may pass: a nil pointer, or a struct with an endpoint
\* of every form the constructor tells apart and each other field either set
\* or at its zero value.
ConstructInputs ==
    {None} \cup {MkOpts(u, tok, mb, email, assign) :
                    u \in {URLA, URLASlash, URLASlash2, URLG, URLEmpty, URLNoSch,
                           URLNoHost, URLOpaque, URLColon},
                    tok \in {"", "t1"}, mb \in {0, 1},
                    email \in {"", "e1"}, assign \in {0, 3}}

NextConstruct == \E opts \in ConstructInputs : Construct(opts)

SpecConstruct == InitWith({ArgsVulnCVE}) /\ [][NextConstruct]_vars

\* ------------------------------------------------------------- vocabulary of the properties

KeyOf(j) == CacheKey(job[j].args)

\* The jobs that have acquired the mutex so far.
Locked == {csOrder[n] : n \in 1..Len(csOrder)}

\* i acquired the mutex before j did.
LockedBefore(i, j) ==
    \E m, n \in 1..Len(csOrder) : m < n /\ csOrder[m] = i /\ csOrder[n] = j

\* getClient of j has returned.
Returned(j) == job[j].pc \in AfterGetClientPCs

\* The getClient calls of i and j overlapped: neither had returned when the other began.
Concurrent(i, j) == i # j /\ i \notin retBefore[j] /\ j \notin retBefore[i]

\* j is inside getClient's critical section.
InCriticalSection(j) == job[j].pc \in {"check", "build", "unlock"}

\* getClient of j found no enabled integration: it passed the mutex with opts == nil.
Disabled(j) == j \in Locked /\ job[j].pc # "check" /\ job[j].opts = None

\* i built a client for the key of j and stored it before j acquired the mutex.
StoredBefore(i, j) ==
    /\ i # j /\ KeyOf(i) = KeyOf(j) /\ LockedBefore(i, j)
    /\ job[i].built = 1 /\ job[i].cli # None /\ job[i].cli.id = i

\* ------------------------------------------------------------- C3

\* C3: when no enabled integration is resolved (opts == nil), getClient leaves no
\* cache entry for the key and returns (nil, nil), having called neither the
\* client constructor nor FreeScoutConfigMatches, whatever the cache held.
C3_NoneEvicts ==
    \A j \in Jobs :
        (job[j].pc = "unlock" /\ job[j].opts = None) =>
            /\ clientsCache[KeyOf(j)] = None
            /\ job[j].cli = None
            /\ ~job[j].err
            /\ job[j].built = 0
            /\ job[j].matched = 0

\* A call with opts == nil is about to return after another job had stored a
\* client under the same key.
C3_Witness ==
    \E i, j \in Jobs :
        job[j].pc = "unlock" /\ job[j].opts = None /\ StoredBefore(i, j)

\* ------------------------------------------------------------- C7

\* C7: a client returned by getClient was either constructed in this call from
\* the options resolved in this call, or is the cached client and its stored
\* options equal the resolved options; a cached client with other options is
\* never returned.
C7_ReturnedClientValid ==
    \A j \in Jobs :
        (job[j].pc \in {"unlock"} \cup AfterGetClientPCs /\ job[j].cli # None) =>
            \/ /\ job[j].built = 1
               /\ job[j].cli.id = j
               /\ ~NewClientRejects(job[j].opts)
               /\ job[j].cli.opts.URL = TrimRightSlash(job[j].opts.URL)
               /\ DiffFields(job[j].cli.opts, job[j].opts) \subseteq {"URL"}
            \/ /\ job[j].built = 0
               /\ job[j].matched = 1
               /\ job[j].cli = job[j].cached
               /\ job[j].cli.opts = job[j].opts

\* A job was handed the cached client that another job had built.
C7_Witness ==
    \E j \in Jobs : Returned(j) /\ job[j].cli # None /\ job[j].cli.id # j

\* ------------------------------------------------------------- C8

\* C8: when the integration of the job's key is disabled as the job runs, Run
\* returns nil and has made no API request, no host lookup and rendered no template.
C8_DisabledIsNoOp ==
    \A j \in Jobs :
        (job[j].pc = "done" /\ Disabled(j)) =>
            /\ job[j].result = "ok"
            /\ job[j].reqs = << >>
            /\ job[j].lookup = "none"
            /\ job[j].rendered = 0

\* A job finished on a disabled integration that was enabled before: another
\* job had built a client for the same key.
C8_Witness ==
    \E i, j \in Jobs :
        job[j].pc = "done" /\ Disabled(j) /\ StoredBefore(i, j) /\ job[j].args # ArgsEmpty

\* ------------------------------------------------------------- C9

\* C9: a payload with neither "vulnerability" nor "failing_policy" is an input
\* error: no step of its job changes the client cache and Run returns an error.
C9_MissingPayloadIsError ==
    [][\A j \in Jobs :
          (job[j].args = ArgsEmpty /\ job'[j] # job[j]) =>
              /\ clientsCache' = clientsCache
              /\ (job'[j].pc = "done" => job'[j].result = "error")]_vars

\* ------------------------------------------------------------- C5

\* C5: two concurrent jobs for the same key that resolved identical options and
\* were both handed a client never both construct one: there is exactly one
\* construction and both hold the same client instance; and the mutex is held
\* by at most one job, which is the only one inside the critical section.
C5_ConcurrentSameOptionsBuildOnce ==
    /\ Cardinality(mu) <= 1
    /\ \A j \in Jobs : InCriticalSection(j) <=> j \in mu
    /\ \A i, j \in Jobs :
          ( /\ Concurrent(i, j) /\ KeyOf(i) = KeyOf(j)
            /\ Returned(i) /\ Returned(j)
            /\ job[i].cli # None /\ job[j].cli # None
            /\ job[i].opts = job[j].opts ) =>
              /\ job[i].built + job[j].built = 1
              /\ job[i].cli = job[j].cli

\* ------------------------------------------------------------- C6

\* C6 as claimed: a job outside the critical section holds no reference to a
\* client that is stored in the cache, and the client a job makes its API
\* requests with is never one that has been evicted or replaced.
C6_NeverSharedOutsideCache ==
    \A j \in Jobs :
        /\ (Returned(j) /\ job[j].pc # "done" /\ job[j].cli # None) =>
               \A k \in Keys : clientsCache[k] # job[j].cli
        /\ job[j].pc \in {"search", "append", "create"} =>
               clientsCache[KeyOf(j)] = job[j].cli

\* C6 as amended: getClient hands the cached client to the calling job, which
\* uses it after the mutex is released; what is confined to the mutex is the
\* cache map: only the single holder of the mutex is at a position that reads
\* or writes clientsCache, and the client a job makes its API requests with is
\* the one its own getClient call built or read from the cache under the mutex.
C6_CacheConfinedToMutex ==
    /\ Cardinality(mu) <= 1
    /\ \A j \in Jobs : InCriticalSection(j) => j \in mu
    /\ \A j \in Jobs :
          job[j].pc \in {"search", "append", "create"} =>
              /\ job[j].cli # None
              /\ job[j].cli.id = j \/ job[j].cli = job[j].cached

\* A job is about to send an API request with a client that another job has
\* meanwhile evicted from the cache or replaced in it.
C6_Witness ==
    \E j \in Jobs :
        /\ job[j].pc \in {"search", "append", "create"}
        /\ job[j].cli # None
        /\ clientsCache[KeyOf(j)] # job[j].cli

\* ------------------------------------------------------------- C1

\* C1: when getClient is called twice in a row for a key with identical options
\* that the constructor accepts, the second call constructs nothing: the
\* constructor ran once, in the first call, and the second call returns the
\* client the first one stored.
C1_SecondCallReuses ==
    \A i, j \in Jobs :
        ( /\ i \in retBefore[j] /\ KeyOf(i) = KeyOf(j)
          /\ job[j].pc \in {"unlock"} \cup AfterGetClientPCs
          /\ job[i].opts # None /\ job[i].opts = job[j].opts
          /\ ~job[i].err /\ ~job[j].err ) =>
            /\ job[i].built = 1
            /\ job[j].built = 0
            /\ job[j].cli = job[i].cli

\* ------------------------------------------------------------- C2

\* The resolved options of j differ from the options of the client cached for
\* its key in exactly the field f, as j is about to return from getClient.
StaleInField(j, f) ==
    /\ job[j].pc = "unlock"
    /\ job[j].opts # None
    /\ job[j].cached # None
    /\ DiffFields(job[j].cached.opts, job[j].opts) = {f}

\* The cache entry of j's key is the client j has just built, which reflects
\* the options j resolved; the previously cached client is gone.
Rebuilt(j) ==
    /\ job[j].built = 1
    /\ clientsCache[KeyOf(j)] # None
    /\ clientsCache[KeyOf(j)].id = j
    /\ clientsCache[KeyOf(j)] = job[j].cli
    /\ clientsCache[KeyOf(j)].opts.URL = TrimRightSlash(job[j].opts.URL)
    /\ DiffFields(clientsCache[KeyOf(j)].opts, job[j].opts) \subseteq {"URL"}
    /\ clientsCache[KeyOf(j)] # job[j].cached

\* C2 as claimed: options that differ from the cached client's in a single
\* field make getClient call the constructor once and leave the newly built
\* client, reflecting the new options, in the cache in place of the previous one.
C2_SingleFieldChangeRebuilds ==
    \A j \in Jobs : \A f \in OptionFields : StaleInField(j, f) => Rebuilt(j)

\* C2 as amended: the constructor is called exactly once; when it accepts the
\* new options the cache entry is the newly built client, which reflects them,
\* and the previous client is gone; when it rejects them getClient returns the
\* error and the previous client stays in the cache.
C2_SingleFieldChangeRebuildsIfAccepted ==
    \A j \in Jobs : \A f \in OptionFields :
        StaleInField(j, f) =>
            /\ job[j].built = 1
            /\ IF job[j].err
               THEN job[j].cli = None /\ clientsCache[KeyOf(j)] = job[j].cached
               ELSE Rebuilt(j)

\* A call replaced the cached client because only the mailbox id had changed.
C2_Witness ==
    \E j \in Jobs : StaleInField(j, "MailboxID") /\ ~job[j].err /\ Rebuilt(j)

\* ------------------------------------------------------------- C4

\* C4: the client built from accepted options o matches o, and matches no
\* options that differ from o in one or more fields.
C4_ConfigMatchesReflexive ==
    \A j \in Jobs :
        (job[j].built = 1 /\ job[j].cli # None) =>
            /\ FreeScoutConfigMatches(job[j].cli, job[j].opts)
            /\ \A o \in WideOpts \ {job[j].opts} : ~FreeScoutConfigMatches(job[j].cli, o)

\* ------------------------------------------------------------- C10

\* The search of j found an existing conversation: findExistingConversationID
\* returned its id, which is positive, and CreateFreeScoutConversation has returned.
FoundExisting(j) == job[j].pc = "done" /\ job[j].existingID > 0

\* C10 as claimed: when the search returns a match, the thread is appended to
\* that conversation, no conversation is created, and the returned id is the
\* id of the match.
C10_MatchAppends ==
    \A j \in Jobs :
        FoundExisting(j) =>
            /\ job[j].reqs = << [op |-> "search", id |-> 0],
                                [op |-> "append", id |-> job[j].existingID] >>
            /\ job[j].convID = job[j].existingID

\* C10 as amended: when the search returns a match, the thread is appended to
\* that conversation and no conversation is created; the returned id is the id
\* of the match when the append request succeeds, and 0 with an error when it fails.
C10_MatchAppendsIfThreadCreated ==
    \A j \in Jobs :
        FoundExisting(j) =>
            /\ job[j].reqs = << [op |-> "search", id |-> 0],
                                [op |-> "append", id |-> job[j].existingID] >>
            /\ job[j].result = "ok" => job[j].convID = job[j].existingID
            /\ job[j].result = "error" => job[j].convID = 0

\* A job appended its thread to the conversation 6 that the search listed first.
C10_Witness ==
    \E j \in Jobs :
        FoundExisting(j) /\ job[j].existingID = 6 /\ job[j].result = "ok" /\ job[j].convID = 6

\* ------------------------------------------------------------- C11

\* The search of j found no conversation to append to: it succeeded with
\* existingID <= 0, and CreateFreeScoutConversation has returned.
FoundNone(j) ==
    /\ job[j].pc = "done"
    /\ Len(job[j].resps) >= 1
    /\ ~FindExistingConversationID(job[j].resps[1]).err
    /\ job[j].existingID <= 0

\* The Resource-ID header of a create response read as a decimal integer: the
\* number its digits spell, when it is a non-empty run of digits.
IsDecimal(h) == h # << >> /\ \A i \in 1..Len(h) : h[i] \in {"0", "1", "2", "3", "4", "5", "6", "7", "8", "9"}

\* C11: when the search finds no existing conversation, exactly one
\* create-conversation request is sent and no append-thread request; on a 2xx
\* response the returned id is the integer the Resource-ID header spells, and
\* an absent or unparseable header gives id 0 and no error.
C11_NoMatchCreates ==
    \A j \in Jobs :
        FoundNone(j) =>
            /\ job[j].reqs = << [op |-> "search", id |-> 0], [op |-> "create", id |-> 0] >>
            /\ Len(job[j].resps) = 2
            /\ LET resp == job[j].resps[2]
               IN  (~resp.neterr /\ resp.status \in {200, 201}) =>
                      /\ job[j].result = "ok"
                      /\ resp.header = << "7" >> => job[j].convID = 7
                      /\ resp.header = << "1", "2" >> => job[j].convID = 12
                      /\ ~IsDecimal(resp.header) => job[j].convID = 0

\* A conversation was created with the two-digit id 12 after the search had
\* listed nothing, and another with an unparseable header.
C11_Witness ==
    \E i, j \in Jobs :
        /\ FoundNone(i) /\ job[i].result = "ok" /\ job[i].convID = 12
        /\ FoundNone(j) /\ job[j].result = "ok" /\ job[j].resps[2].header = << "7", "x" >>

\* ------------------------------------------------------------- C12

\* The request n of j was answered with a status that is not 2xx.
AnsweredNon2xx(j, n) ==
    /\ n \in 1..Len(job[j].resps)
    /\ ~job[j].resps[n].neterr
    /\ job[j].resps[n].status \in {404, 500}

\* C12: a non-2xx response to the search, append-thread or create-conversation
\* request makes CreateFreeScoutConversation return an error and id 0; the
\* failed request is the last one sent (a failed search is followed by neither
\* an append nor a create, a failed append by no create) and no request is sent twice.
C12_Non2xxIsHardError ==
    \A j \in Jobs :
        /\ Len(job[j].resps) = Len(job[j].reqs)
        /\ \A m, n \in 1..Len(job[j].reqs) : m # n => job[j].reqs[m].op # job[j].reqs[n].op
        /\ \A n \in 1..Len(job[j].resps) :
              AnsweredNon2xx(j, n) =>
                  /\ job[j].pc = "done"
                  /\ job[j].result = "error"
                  /\ job[j].convID = 0
                  /\ n = Len(job[j].reqs)

\* Each of the three requests was answered 404 or 500 in some job: a search, an
\* append and a create.
C12_Witness ==
    \E i, j \in Jobs :
        /\ AnsweredNon2xx(i, 2) /\ job[i].reqs[2].op = "append"
        /\ \/ AnsweredNon2xx(j, 1)
           \/ AnsweredNon2xx(j, 2) /\ job[j].reqs[2].op = "create"

\* ------------------------------------------------------------- C13

\* The API requests of j came in order: after the arguments were parsed, a
\* client resolved, the hosts of a vulnerability fetched and both templates
\* executed; one search first, then at most one append or create.
CalledInOrder(j) ==
    job[j].reqs # << >> =>
        /\ job[j].args.json
        /\ ~job[j].err /\ job[j].cli # None
        /\ integrationType(job[j].args) = intgTypeVuln => job[j].lookup # "none"
        /\ job[j].rendered = 2
        /\ job[j].reqs[1].op = "search"
        /\ Len(job[j].reqs) <= 2
        /\ Len(job[j].reqs) = 2 => job[j].reqs[2].op \in {"append", "create"}

\* j ended at a step before the API call: unmarshal, getClient, the host
\* fetch, or one of the two templates.
FailedEarlier(j) ==
    /\ job[j].pc = "done"
    /\ \/ ~job[j].args.json
       \/ job[j].err
       \/ job[j].lookup # "none" /\ job[j].rendered = 0
       \/ job[j].rendered = 1
       \/ job[j].rendered = 2 /\ job[j].reqs = << >>

\* j made one search request followed by one append or create request.
OneLookupOneWrite(j) ==
    /\ Len(job[j].reqs) = 2
    /\ job[j].reqs[1].op = "search"
    /\ job[j].reqs[2].op \in {"append", "create"}

\* C13 as claimed: the API is called in order and at most once per Run, a
\* failure at an earlier step returns an error with no API request, and every
\* successful job made exactly one search and one append or create request.
C13_RunOrder ==
    \A j \in Jobs :
        /\ CalledInOrder(j)
        /\ FailedEarlier(j) => job[j].result = "error" /\ job[j].reqs = << >>
        /\ (job[j].pc = "done" /\ job[j].result = "ok") => OneLookupOneWrite(j)

\* C13 as amended: as claimed, except that the jobs that succeed with one
\* search and one append or create request are those for which getClient
\* returned a client; a job for which it returned no client succeeds with no
\* request at all.
C13_RunOrderWithClient ==
    \A j \in Jobs :
        /\ CalledInOrder(j)
        /\ FailedEarlier(j) => job[j].result = "error" /\ job[j].reqs = << >>
        /\ (job[j].pc = "done" /\ job[j].result = "ok") =>
              IF job[j].cli # None THEN OneLookupOneWrite(j) ELSE job[j].reqs = << >>

\* One job succeeded after its two requests while the other failed at its
\* description template, having sent none.
C13_Witness ==
    \E i, j \in Jobs :
        /\ job[i].pc = "done" /\ job[i].result = "ok" /\ OneLookupOneWrite(i)
        /\ job[j].pc = "done" /\ job[j].result = "error" /\ job[j].rendered = 2
        /\ job[j].reqs = << >>

\* ------------------------------------------------------------- C14

\* The body of j lists the first min(n, 50) of the n hosts it was rendered
\* from, in their order, and the summary gives n.
ListsFirstFifty(j) ==
    LET hs     == IF job[j].args.FailingPolicy THEN job[j].args.Hosts ELSE job[j].hosts
        n      == Len(hs)
        listed == job[j].description.listed
    IN  /\ Len(listed) = (IF n <= 50 THEN n ELSE 50)
        /\ \A i \in 1..Len(listed) : listed[i] = hs[i]
        /\ job[j].summary.hosts = n

\* C14: for a host list of length n the rendered body lists exactly the first
\* min(n, 50) hosts in their original order and the summary reports n, in the
\* vulnerability and in the failing-policy template.
C14_BodyListsFirstFifty ==
    \A j \in Jobs :
        job[j].description # None =>
            /\ ListsFirstFifty(j)
            /\ job[j].description.tpl =
                  (IF job[j].args.FailingPolicy THEN "FailingPolicyDescription" ELSE "VulnDescription")

\* A vulnerability job rendered 60 hosts given in descending order, listing
\* the first 50 under a summary of 60, and a failing-policy job rendered
\* exactly 50 hosts, listing them all.
C14_Witness ==
    \E i, j \in Jobs :
        /\ job[i].description # None /\ ~job[i].args.FailingPolicy
        /\ Len(job[i].hosts) = 60 /\ job[i].hosts[1] = 60
        /\ Len(job[i].description.listed) = 50 /\ job[i].description.listed[50] = 11
        /\ job[i].summary.hosts = 60
        /\ job[j].description # None /\ job[j].args.FailingPolicy
        /\ Len(job[j].args.Hosts) = 50 /\ Len(job[j].description.listed) = 50

\* ------------------------------------------------------------- C15

\* C15: a call of QueueFreeScoutFailingPolicyJob with an empty host list returns
\* nil without calling QueueJob and adds no job; a call with a non-empty host
\* list calls QueueJob exactly once and, when the insert succeeds, adds exactly
\* one job, which carries the policy's id, name, critical flag and team id and
\* the given hosts.
C15_EmptyHostsNeverQueued ==
    [][queue' # queue =>
         LET call == queue'.last.call
         IN  IF call.hosts = << >>
             THEN /\ queue'.calls = queue.calls
                  /\ queue'.jobs = queue.jobs
                  /\ ~queue'.last.err
             ELSE /\ queue'.calls = queue.calls + 1
                  /\ IF queue'.last.err
                     THEN queue'.jobs = queue.jobs
                     ELSE /\ Len(queue'.jobs) = Len(queue.jobs) + 1
                          /\ SubSeq(queue'.jobs, 1, Len(queue.jobs)) = queue.jobs
                          /\ LET new == queue'.jobs[Len(queue'.jobs)]
                             IN  /\ new.name = "freescout"
                                 /\ new.args.Vulnerability = None
                                 /\ new.args.FailingPolicy.PolicyID = call.policy.ID
                                 /\ new.args.FailingPolicy.PolicyName = call.policy.Name
                                 /\ new.args.FailingPolicy.PolicyCritical = call.policy.Critical
                                 /\ new.args.FailingPolicy.TeamID = call.policy.TeamID
                                 /\ new.args.FailingPolicy.Hosts = call.hosts]_vars

\* After a job for a critical policy of team 0 with the hosts 2, 1 was queued,
\* a call without hosts returned nil and left the one job in the table.
C15_Witness ==
    /\ queue.last # None
    /\ queue.last.call.hosts = << >> /\ ~queue.last.err
    /\ queue.calls = 1 /\ Len(queue.jobs) = 1
    /\ queue.jobs[1].args.FailingPolicy.Hosts = << 2, 1 >>
    /\ queue.jobs[1].args.FailingPolicy.TeamID = Ptr(0)
    /\ queue.jobs[1].args.FailingPolicy.PolicyCritical

\* ------------------------------------------------------------- C16

\* The enable flag of the entry e that counts for the kind of job j.
EnabledFor(j, e) ==
    IF job[j].args.FailingPolicy THEN e.EnableFailingPolicies ELSE e.EnableSoftwareVulnerabilities

\* C16: the resolved options are built from the first entry, in configuration
\* order, whose enable flag for the job's kind is set, and from that entry
\* only; when no entry is enabled they are None.
C16_FirstEnabledEntryWins ==
    \A j \in Jobs :
        job[j].intgs # NilPtr =>
            LET list == job[j].intgs[1]
                en   == {n \in 1..Len(list) : EnabledFor(j, list[n])}
            IN  IF en = {}
                THEN job[j].opts = None
                ELSE LET first == CHOOSE n \in en : \A m \in en : n <= m
                     IN  /\ job[j].opts # None
                         /\ job[j].opts.URL = list[first].URL
                         /\ job[j].opts.APIToken = list[first].APIToken
                         /\ job[j].opts.MailboxID = list[first].MailboxID
                         /\ job[j].opts.CustomerEmail = list[first].CustomerEmail
                         /\ job[j].opts.AssignTo = list[first].AssignTo

\* A vulnerability job resolved the second of three entries, the first being
\* disabled and the third enabled with another token, and a team's
\* failing-policy job resolved None from entries enabled for vulnerabilities only.
C16_Witness ==
    \E i, j \in Jobs :
        /\ ~job[i].args.FailingPolicy /\ job[i].intgs # NilPtr /\ Len(job[i].intgs[1]) = 3
        /\ job[i].opts = OptTok
        /\ UseTeamCfg(job[j].args) /\ job[j].intgs # NilPtr /\ Len(job[j].intgs[1]) = 2
        /\ job[j].intgs[1][1].EnableSoftwareVulnerabilities /\ job[j].opts = None

\* ------------------------------------------------------------- C17

\* The getClient call of j failed at a datastore lookup or at the integration
\* matching: it returned an error without having called the constructor.
LookupFailed(j) == Returned(j) /\ job[j].err /\ job[j].built = 0

\* C17: a step of getClient at which AppConfig, TeamLite or the integration
\* matching fails returns at once with the error and no client, leaving the
\* mutex and the client cache as they are; the job never acquires the mutex,
\* constructs no client and makes no API request, and Run returns an error.
C17_LookupErrorPropagates ==
    /\ [](\A j \in Jobs :
             LookupFailed(j) =>
                 /\ job[j].cli = None
                 /\ j \notin Locked /\ j \notin mu
                 /\ job[j].matched = 0
                 /\ job[j].reqs = << >> /\ job[j].lookup = "none" /\ job[j].rendered = 0
                 /\ job[j].pc = "done" => job[j].result = "error")
    /\ [][\A j \in Jobs :
             (job[j].pc \in {"appconfig", "teamlite"} /\ job'[j].err) =>
                 /\ job'[j].pc = "gotclient"
                 /\ clientsCache' = clientsCache
                 /\ mu' = mu /\ csOrder' = csOrder]_vars

\* A team's failing-policy job ended with the error of its TeamLite lookup
\* while the cache held the client another job had stored under the same key.
C17_Witness ==
    \E i, j \in Jobs :
        /\ i # j /\ KeyOf(i) = KeyOf(j) /\ UseTeamCfg(job[j].args)
        /\ LookupFailed(j) /\ job[j].pc = "done" /\ job[j].result = "error"
        /\ clientsCache[KeyOf(j)] # None /\ clientsCache[KeyOf(j)].id = i

\* ------------------------------------------------------------- C18

\* The constructor failed in the getClient call of j.
ConstructionFailed(j) == job[j].built = 1 /\ job[j].err

\* C18: when the constructor fails, getClient returns the error and no client;
\* as it returns, the cache entry of the key is what the call found (nothing,
\* or the stale client, which stays), and once it has returned the job does
\* not hold the mutex.
C18_ConstructionErrorKeepsCache ==
    \A j \in Jobs :
        ConstructionFailed(j) =>
            /\ job[j].cli = None
            /\ job[j].pc = "unlock" => clientsCache[KeyOf(j)] = job[j].cached
            /\ Returned(j) => j \notin mu
            /\ job[j].pc = "done" => job[j].result = "error" /\ job[j].reqs = << >>

\* A call whose construction failed is about to return and the stale client
\* another job had stored is still the cache entry of its key.
C18_Witness ==
    \E i, j \in Jobs :
        /\ ConstructionFailed(j) /\ job[j].pc = "unlock"
        /\ StoredBefore(i, j) /\ clientsCache[KeyOf(j)] = job[i].cli

\* ------------------------------------------------------------- C19

\* The getClient calls of i and j for one key (jobs with a vulnerability or a
\* failing-policy payload) overlapped, i read the configuration A before j
\* read the changed configuration B, both were handed a client, and both have
\* returned.
ResolvedAcrossChange(i, j) ==
    /\ Concurrent(i, j) /\ KeyOf(i) = KeyOf(j)
    /\ job[i].args # ArgsEmpty /\ job[j].args # ArgsEmpty
    /\ i \in job[j].readAfter
    /\ job[i].opts # None /\ job[j].opts # None /\ job[i].opts # job[j].opts
    /\ Returned(i) /\ Returned(j)
    /\ job[i].cli # None /\ job[j].cli # None

\* C19 as claimed: once both calls have returned, the cache entry of the key
\* is the client of the call that resolved the most recent configuration B,
\* not the client built from the older configuration A.
C19_LatestConfigurationWins ==
    \A i, j \in Jobs :
        ResolvedAcrossChange(i, j) => clientsCache[KeyOf(j)] = job[j].cli

\* C19 as amended: once both calls have returned, the cache entry of the key
\* is the client of the call that acquired the mutex last, whichever
\* configuration that call had resolved.
C19_LastLockerWins ==
    \A i, j \in Jobs :
        (ResolvedAcrossChange(i, j) \/ ResolvedAcrossChange(j, i)) /\ LockedBefore(i, j) =>
            clientsCache[KeyOf(j)] = job[j].cli

\* The call that had resolved the older configuration acquired the mutex last
\* and left the client it built, with the older token, in the cache.
C19_Witness ==
    \E i, j \in Jobs :
        /\ ResolvedAcrossChange(i, j) /\ LockedBefore(j, i)
        /\ clientsCache[KeyOf(i)] = job[i].cli /\ job[i].cli.id = i
        /\ job[i].cli.opts.APIToken # job[j].opts.APIToken

\* ------------------------------------------------------------- C20

\* C20: a job holds the mutex neither during its datastore calls nor while it
\* waits for the mutex nor after getClient has returned, whatever the return
\* path; and every getClient call that was begun returns.
C20_EveryCallReturns ==
    /\ [](\A j \in Jobs :
             /\ job[j].pc \in {"queued", "appconfig", "teamlite", "lock"} => j \notin mu
             /\ Returned(j) => j \notin mu)
    /\ \A j \in Jobs : (job[j].pc = "appconfig") ~> Returned(j)

\* Two overlapping calls have both passed the critical section and returned,
\* one with the error of its constructor and the other after evicting the entry.
C20_Witness ==
    \E i, j \in Jobs :
        /\ Concurrent(i, j) /\ LockedBefore(i, j) /\ Returned(i) /\ Returned(j)
        /\ job[i].built = 1 /\ job[i].err
        /\ job[j].opts = None /\ mu = {}

\* ------------------------------------------------------------- C21

\* The key the claim gives for the payload a.
ScopeKey(a) ==
    IF ~a.FailingPolicy THEN "vuln:"
    ELSE IF a.TeamID = << >> THEN "failingPolicy:"
    ELSE IF a.TeamID[1] = 0 THEN "failingPolicy:0"
    ELSE "failingPolicy:" \o ToString(a.TeamID[1])

FirstWithFailingPolicies(list) ==
    LET en == {n \in 1..Len(list) : list[n].EnableFailingPolicies}
    IN  IF en = {} THEN None
        ELSE LET e == list[CHOOSE n \in en : \A m \in en : n <= m]
             IN  [URL |-> e.URL, APIToken |-> e.APIToken, MailboxID |-> e.MailboxID,
                  CustomerEmail |-> e.CustomerEmail, AssignTo |-> e.AssignTo]

\* C22: a failing-policy job with a team id resolves its options from the
\* team's matched integrations only, whatever the global entries are: None
\* when the team enables none, and then its cache entry is evicted and the job
\* ends successfully without a request; a failing-policy job without a team id
\* resolves from the global entries.
C22_TeamJobsUseTeamConfigOnly ==
    \A j \in Jobs :
        (job[j].args.FailingPolicy /\ job[j].intgs # NilPtr) =>
            IF job[j].args.TeamID # << >>
            THEN /\ job[j].opts = FirstWithFailingPolicies(job[j].intgs[1])
                 /\ job[j].opts = None =>
                       /\ job[j].pc = "unlock" => clientsCache[KeyOf(j)] = None
                       /\ job[j].pc = "done" => job[j].result = "ok" /\ job[j].reqs = << >>
            ELSE /\ job[j].opts = FirstWithFailingPolicies(job[j].intgs[1])
                 /\ job[j].acFailingPolicies <=> job[j].opts # None

\* A team's job ended as a no-op, the team enabling no integration while the
\* global entries it had read enable failing policies, after another job had
\* stored a client under the team's key.
C22_Witness ==
    \E i, j \in Jobs :
        /\ job[j].args.FailingPolicy /\ job[j].args.TeamID # << >>
        /\ job[j].intgs # NilPtr /\ job[j].opts = None
        /\ job[j].acFailingPolicies
        /\ job[j].pc = "done" /\ job[j].result = "ok"
        /\ StoredBefore(i, j) /\ clientsCache[KeyOf(j)] = None

\* ------------------------------------------------------------- C23

\* u is v followed by slashes only, and v does not end in a slash.
IsTrimOf(v, u) ==
    /\ Len(v) <= Len(u)
    /\ \A n \in 1..Len(u) : IF n <= Len(v) THEN u[n] = v[n] ELSE u[n] = "/"
    /\ (Len(v) > 0 => v[Len(v)] # "/")

\* C23: NewFreeScoutClient fails, returning no client, for nil options, for an
\* empty, unparseable, scheme-less or host-less URL, and for options missing
\* the API token, the mailbox id or the customer email; for any other options
\* it returns a client whose stored URL is the given one without its trailing
\* slashes and whose other fields are the given ones, and it leaves the
\* caller's options as they were.
C23_ConstructionChecksOptions ==
    made.called =>
        IF \/ made.given = None
           \/ made.given.URL = << >> \/ ParseURL(made.given.URL).err
           \/ ParseURL(made.given.URL).Scheme = << >> \/ ParseURL(made.given.URL).Host = << >>
           \/ made.given.APIToken = "" \/ made.given.MailboxID = 0
           \/ made.given.CustomerEmail = ""
        THEN made.err /\ made.cli = None
        ELSE /\ ~made.err
             /\ made.cli # None
             /\ IsTrimOf(made.cli.opts.URL, made.given.URL)
             /\ \A f \in OptionFields \ {"URL"} : made.cli.opts[f] = made.given[f]
             /\ made.after = made.given

\* ------------------------------------------------------------- C24

\* The job carries the software ids of the entries of vulns with its CVE, in
\* the order of vulns, and the CVE's metadata when cveMeta has it (no metadata
\* otherwise).
CarriesCVE(j, vulns, cveMeta) ==
    LET v         == j.args.Vulnerability
        HasCVE(x) == x.CVE = v.CVE
        sel       == SelectSeq(vulns, HasCVE)
    IN  /\ j.name = freescoutName
        /\ j.args.FailingPolicy = None
        /\ v.AffectedSoftwareIDs = [n \in 1..Len(sel) |-> sel[n].SoftwareID]
        /\ IF v.CVE \in DOMAIN cveMeta
           THEN /\ v.EPSSProbability = cveMeta[v.CVE].EPSSProbability
                /\ v.CVSSScore = cveMeta[v.CVE].CVSSScore
                /\ v.CISAKnownExploit = cveMeta[v.CVE].CISAKnownExploit
                /\ v.CVEPublished = cveMeta[v.CVE].Published
           ELSE /\ v.EPSSProbability = NilPtr /\ v.CVSSScore = NilPtr
                /\ v.CISAKnownExploit = NilPtr /\ v.CVEPublished = NilPtr

\* C24: a call of QueueFreeScoutVulnJobs leaves the jobs queued before it in
\* place and adds jobs for distinct CVEs of recentVulns, each carrying all the
\* software ids of its CVE in input order and the CVE's metadata when cveMeta
\* has it; when it returns no error there is exactly one job per distinct CVE,
\* and when a QueueJob call fails that call is its last one: the error is
\* returned and the CVEs not yet visited get no job.
C24_OneJobPerCVE ==
    [][ LET vulns == queue'.last.call.recentVulns
            meta  == queue'.last.call.cveMeta
            cves  == {vulns[n].CVE : n \in 1..Len(vulns)}
            old   == Len(queue.jobs)
            new   == SubSeq(queue'.jobs, old + 1, Len(queue'.jobs))
        IN  /\ Len(queue'.jobs) >= old
            /\ SubSeq(queue'.jobs, 1, old) = queue.jobs
            /\ \A n \in 1..Len(new) : new[n].args.Vulnerability.CVE \in cves
                                        /\ CarriesCVE(new[n], vulns, meta)
            /\ \A n, m \in 1..Len(new) :
                   new[n].args.Vulnerability.CVE = new[m].args.Vulnerability.CVE => n = m
            /\ IF queue'.last.err
               THEN /\ Len(new) < Cardinality(cves)
                    /\ queue'.calls = queue.calls + Len(new) + 1
               ELSE /\ Len(new) = Cardinality(cves)
                    /\ queue'.calls = queue.calls + Len(new) ]_vars

\* A call failed after a job was queued for a CVE with two software ids, the
\* larger id first in the input, and with metadata: the job is still queued.
C24_Witness ==
    /\ queue.last # None
    /\ queue.last.err
    /\ \E n \in 1..Len(queue.jobs) :
          /\ queue.jobs[n].args.Vulnerability.AffectedSoftwareIDs = << 2, 1 >>
          /\ queue.jobs[n].args.Vulnerability.CVSSScore # NilPtr

\* ------------------------------------------------------------- C25

\* The search of j was answered with a list of conversations: a 2xx response
\* whose body decodes and lists at least one.
SearchListed(j) ==
    /\ Len(job[j].resps) >= 1
    /\ job[j].reqs[1].op = "search"
    /\ ~job[j].resps[1].neterr
    /\ job[j].resps[1].status \in {200, 201}
    /\ job[j].resps[1].decodes
    /\ Len(job[j].resps[1].convs) >= 1

\* The append-thread requests j has sent.
Appends(j) == {n \in 1..Len(job[j].reqs) : job[j].reqs[n].op = "append"}

\* C25: when the first conversation of the search response has an id <= 0, no
\* thread is appended and the next request creates a conversation; a thread is
\* appended to no conversation but the first of the search response, so at most
\* one append-thread request is sent.
C25_OnlyFirstConversation ==
    \A j \in Jobs :
        /\ Cardinality(Appends(j)) <= 1
        /\ \A n \in Appends(j) :
              SearchListed(j) /\ job[j].reqs[n].id = job[j].resps[1].convs[1]
        /\ (SearchListed(j) /\ job[j].resps[1].convs[1] <= 0) =>
              /\ Appends(j) = {}
              /\ job[j].pc \in {"create", "done"}
              /\ job[j].pc = "done" =>
                    job[j].reqs = << [op |-> "search", id |-> 0], [op |-> "create", id |-> 0] >>

\* A conversation was created although the search listed conversation 5 after
\* one with a negative id, and in another job after a first conversation of id 0.
C25_Witness ==
    \E i, j \in Jobs :
        /\ SearchListed(i) /\ job[i].resps[1].convs = << 0 - 4, 5 >>
        /\ job[i].pc = "done" /\ job[i].result = "ok" /\ job[i].convID = 7
        /\ SearchListed(j) /\ job[j].resps[1].convs = << 0 >>
        /\ job[j].pc = "done" /\ job[j].reqs[2].op = "create"

====
